---------------------------- MODULE Spec2Model ----------------------------
(***************************************************************************)
(* A model of csvstar: the column-specifier resolver (src/src/csvutil.rs   *)
(* and the copy inlined in src/src/csvcut.rs), csvcut's record projection, *)
(* and csvstat's streaming statistics accumulator (src/src/csvstat.rs).    *)
(*                                                                         *)
(* Strings are sequences of one-character strings, so that parsing,        *)
(* formatting and the bytewise ordering of Rust's str are computed rather  *)
(* than assumed.  f64 values are modelled as exact rationals <<num, den>>  *)
(* (rounding is not modelled).                                              *)
(***************************************************************************)
EXTENDS Integers, Sequences, FiniteSets, TLC

VARIABLES
    first_row,        \* resolver: the header row (a sequence of names)
    columns,          \* resolver: the token list, or None
    overflow_checks,  \* the build: TRUE when integer overflow panics (debug)
    util_result,      \* result of the csvutil function applied, or NotRun
    cut_result,       \* result of the copy inlined in csvcut, or NotRun
    main_result,      \* result of the resolver inlined in main.rs, or NotRun
    stat,             \* accumulator: one CsvColumnStat
    observed,         \* accumulator: the values add_statistic was called with
    pc,               \* process_csv: where the run is
    options,          \* process_csv: the CsvOptions (and the csv flag)
    pending,          \* process_csv: rows the reader is known to yield next
    scanned,          \* process_csv: the records read so far
    selected_indices, \* process_csv: the resolved indices
    statistics,       \* csvstat: the Vec<CsvColumnStat>
    fed,              \* csvstat: the values each statistics object received
    output,           \* process_csv: what was written, or NoOutput
    result            \* process_csv: Running, Ok(()), Err(e) or a panic

resolveVars == <<util_result, cut_result, main_result>>

accumVars == <<stat, observed>>

procVars == <<pc, options, pending, scanned, selected_indices, statistics,
              fed, output, result>>

vars == <<first_row, columns, overflow_checks, util_result, cut_result,
          main_result, stat, observed, pc, options, pending, scanned, selected_indices,
          statistics, fed, output, result>>

---------------------------------------------------------------------------
(* Bounds of the model.                                                    *)

MaxCols == 3

MaxTokens == 2

MaxObs == 4

MaxWidth == 2

MaxRecords == 2

\* The capacities below the 100 of freq() that its loop is checked with.
MaxCap == 2

\* The widest input whose column names are synthesized.
MaxNameCols == 100

---------------------------------------------------------------------------
(* Strings.                                                                *)

None == [tag |-> "None"]

NotRun == [tag |-> "NotRun"]

Digits == <<"0", "1", "2", "3", "4", "5", "6", "7", "8", "9">>

IsDigit(c) == \E i \in 1..10 : Digits[i] = c

DigitVal(c) == (CHOOSE i \in 1..10 : Digits[i] = c) - 1

AllDigits(s) == Len(s) > 0 /\ \A i \in 1..Len(s) : IsDigit(s[i])

RECURSIVE DigitsValue(_)
DigitsValue(s) ==
    IF Len(s) = 0 THEN 0
    ELSE 10 * DigitsValue(SubSeq(s, 1, Len(s) - 1)) + DigitVal(s[Len(s)])

RECURSIVE StripZeros(_)
StripZeros(s) ==
    IF Len(s) > 1 /\ s[1] = "0" THEN StripZeros(Tail(s)) ELSE s

\* The bytes of the characters the model's strings are made of (ASCII).
Byte(c) ==
    CASE c = " " -> 32 [] c = "(" -> 40 [] c = ")" -> 41
      [] c = "+" -> 43 [] c = "-" -> 45
      [] IsDigit(c) -> 48 + DigitVal(c)
      [] c = "X" -> 88
      [] c = "a" -> 97 [] c = "b" -> 98 [] c = "c" -> 99
      [] c = "z" -> 122

\* Rust's Ord for str: bytewise lexicographic, a proper prefix is smaller.
RECURSIVE StrLess(_, _)
StrLess(s, t) ==
    IF Len(t) = 0 THEN FALSE
    ELSE IF Len(s) = 0 THEN TRUE
    ELSE IF s[1] = t[1] THEN StrLess(Tail(s), Tail(t))
    ELSE Byte(s[1]) < Byte(t[1])

\* Decimal digits of a natural number (Display for the integer types).
RECURSIVE NatToString(_)
NatToString(n) ==
    IF n < 10 THEN <<Digits[n + 1]>>
    ELSE NatToString(n \div 10) \o <<Digits[(n % 10) + 1]>>

IntToString(k) == IF k < 0 THEN <<"-">> \o NatToString(-k) ELSE NatToString(k)

---------------------------------------------------------------------------
(* Results: Ok(v), Err(e) and a panic (the thread aborts).                 *)

Ok(v) == [tag |-> "Ok", val |-> v]

Err(e) == [tag |-> "Err", err |-> e]

Panic(m) == [tag |-> "Panic", msg |-> m]

IsOk(r) == r.tag = "Ok"

IsErr(r) == r.tag = "Err"

IsPanic(r) == r.tag = "Panic"

\* The error messages of the resolver, by the names the specification
\* gives them, with the numbers each message reports.
ColumnZeroInvalid == [kind |-> "ColumnZeroInvalid"]

ColumnOutOfRange(k, n) == [kind |-> "ColumnOutOfRange", k |-> k, n |-> n]

RangeNotIncreasing(a, b) == [kind |-> "RangeNotIncreasing", a |-> a, b |-> b]

RangeOutOfBounds(a, b, n) == [kind |-> "RangeOutOfBounds", a |-> a, b |-> b, n |-> n]

ColumnNotFound(name) == [kind |-> "ColumnNotFound", name |-> name]

\* usize::MAX, which 0usize - 1 wraps to in a build without overflow
\* checks: 2^64 - 1 in the program, the greatest integer of the model here.
UsizeMax == 2147483647

---------------------------------------------------------------------------
(* str::parse::<i32> and str::parse::<usize>.                              *)

I32MaxDigits == <<"2", "1", "4", "7", "4", "8", "3", "6", "4", "7">>

I32MinDigits == <<"2", "1", "4", "7", "4", "8", "3", "6", "4", "8">>

\* Whether the digit string d is at most the digit string lim, as numbers.
FitsIn(d, lim) ==
    LET z == StripZeros(d)
    IN  Len(z) < Len(lim) \/ (Len(z) = Len(lim) /\ ~StrLess(lim, z))

\* An optional sign, then one or more digits, the value within i32.
ParseI32(s) ==
    IF Len(s) = 0 THEN Err("empty")
    ELSE IF s[1] = "-"
    THEN IF AllDigits(Tail(s)) /\ FitsIn(Tail(s), I32MinDigits)
         THEN IF StripZeros(Tail(s)) = I32MinDigits
              THEN Ok(-2147483647 - 1)
              ELSE Ok(-DigitsValue(Tail(s)))
         ELSE Err("invalid")
    ELSE IF s[1] = "+"
    THEN IF AllDigits(Tail(s)) /\ FitsIn(Tail(s), I32MaxDigits)
         THEN Ok(DigitsValue(Tail(s)))
         ELSE Err("invalid")
    ELSE IF AllDigits(s) /\ FitsIn(s, I32MaxDigits)
         THEN Ok(DigitsValue(s))
         ELSE Err("invalid")

\* An optional +, then one or more digits; no - for an unsigned type.
\* Values are modelled up to 2^31 - 1 (the model's integers).
ParseUsize(s) ==
    IF Len(s) = 0 THEN Err("empty")
    ELSE IF s[1] = "+"
    THEN IF AllDigits(Tail(s)) /\ FitsIn(Tail(s), I32MaxDigits)
         THEN Ok(DigitsValue(Tail(s)))
         ELSE Err("invalid")
    ELSE IF AllDigits(s) /\ FitsIn(s, I32MaxDigits)
         THEN Ok(DigitsValue(s))
         ELSE Err("invalid")

\* str::split_once('-'): the position of the first '-', or 0.
FirstDash(s) ==
    IF \E i \in 1..Len(s) : s[i] = "-"
    THEN CHOOSE i \in 1..Len(s) : s[i] = "-" /\ \A j \in 1..(i - 1) : s[j] # "-"
    ELSE 0

---------------------------------------------------------------------------
(* csvutil.rs: the resolver.                                               *)

\* A RangeInclusive<usize> is [start, end].
parse_range(s) ==
    LET p == FirstDash(s)
    IN  IF p = 0 THEN Err("no dash")
        ELSE LET lo == ParseUsize(SubSeq(s, 1, p - 1))
                 hi == ParseUsize(SubSeq(s, p + 1, Len(s)))
             IN  IF IsErr(lo) THEN Err("min")
                 ELSE IF IsErr(hi) THEN Err("max")
                 ELSE Ok([start |-> lo.val, end |-> hi.val])

\* i - 1 on a usize: an underflow panics with overflow checks and wraps
\* without them.
UsizePred(i) == IF i = 0 THEN UsizeMax ELSE i - 1

validate_range(range, row, checks) ==
    IF range.start >= range.end
    THEN Err(RangeNotIncreasing(range.start, range.end))
    ELSE IF range.end > Len(row)
    THEN Err(RangeOutOfBounds(range.start, range.end, Len(row)))
    ELSE IF range.start = 0 /\ checks
    THEN Panic("attempt to subtract with overflow")
    ELSE Ok([j \in 1..(range.end - range.start + 1) |->
                UsizePred(range.start + j - 1)])

\* A slip in add_numeric_col: the last column is taken to be out of range.
add_numeric_col_strict(row, n_headers, numeric) ==
    IF numeric = 0 THEN Err(ColumnZeroInvalid)
    ELSE IF numeric < -n_headers \/ numeric >= n_headers
    THEN Err(ColumnOutOfRange(numeric, Len(row)))
    ELSE IF numeric > 0 THEN Ok(numeric - 1)
    ELSE Ok(n_headers + numeric)

add_numeric_col(row, n_headers, numeric) ==
    IF numeric = 0 THEN Err(ColumnZeroInvalid)
    ELSE IF numeric < -n_headers \/ numeric > n_headers
    THEN Err(ColumnOutOfRange(numeric, Len(row)))
    ELSE IF numeric > 0 THEN Ok(numeric - 1)
    ELSE Ok(n_headers + numeric)

\* A slip in the name lookup: the last equal name is taken (rposition).
Position_last(row, col) ==
    IF \E i \in 1..Len(row) : row[i] = col
    THEN Ok((CHOOSE i \in 1..Len(row) :
                row[i] = col /\ \A j \in (i + 1)..Len(row) : row[j] # col) - 1)
    ELSE Err(ColumnNotFound(col))

\* Iterator::position: the 0-based index of the first equal name.
Position(row, col) ==
    IF \E i \in 1..Len(row) : row[i] = col
    THEN Ok((CHOOSE i \in 1..Len(row) :
                row[i] = col /\ \A j \in 1..(i - 1) : row[j] # col) - 1)
    ELSE Err(ColumnNotFound(col))

\* A slip in the order of the branches: the name lookup is tried first.
resolve_token_name_first(row, col, checks) ==
    LET numeric == ParseI32(col)
        range == parse_range(col)
        named == Position(row, col)
    IN  IF IsOk(named) THEN Ok(<<named.val>>)
        ELSE IF IsOk(numeric)
        THEN LET r == add_numeric_col(row, Len(row), numeric.val)
             IN  IF IsOk(r) THEN Ok(<<r.val>>) ELSE r
        ELSE IF IsOk(range)
        THEN validate_range(range.val, row, checks)
        ELSE named

\* One iteration of the loop over the tokens: what the token adds to
\* idx_vec, or the error (or panic) the ? operator leaves with.
resolve_token(row, col, checks) ==
    LET numeric == ParseI32(col)
        range == parse_range(col)
    IN  IF IsOk(numeric)
        THEN LET r == add_numeric_col(row, Len(row), numeric.val)
             IN  IF IsOk(r) THEN Ok(<<r.val>>) ELSE r
        ELSE IF IsOk(range)
        THEN validate_range(range.val, row, checks)
        ELSE LET r == Position(row, col)
             IN  IF IsOk(r) THEN Ok(<<r.val>>) ELSE r

\* A slip in the loop: a token that fails is skipped and the loop goes on.
RECURSIVE resolve_loop_skipping(_, _, _, _)
resolve_loop_skipping(row, cols, idx_vec, checks) ==
    IF Len(cols) = 0 THEN Ok(idx_vec)
    ELSE LET r == resolve_token(row, Head(cols), checks)
         IN  resolve_loop_skipping(row, Tail(cols),
                 IF IsOk(r) THEN idx_vec \o r.val ELSE idx_vec, checks)

RECURSIVE resolve_loop(_, _, _, _)
resolve_loop(row, cols, idx_vec, checks) ==
    IF Len(cols) = 0 THEN Ok(idx_vec)
    ELSE LET r == resolve_token(row, Head(cols), checks)
         IN  IF IsOk(r)
             THEN resolve_loop(row, Tail(cols), idx_vec \o r.val, checks)
             ELSE r

select_column_indices(row, cols, checks) ==
    IF cols = None
    THEN Ok([j \in 1..Len(row) |-> j - 1])
    ELSE resolve_loop(row, cols.val, <<>>, checks)

---------------------------------------------------------------------------
(* csvcut.rs: the resolver inlined in process_csv.                         *)

cut_parse_range(s) ==
    LET p == FirstDash(s)
    IN  IF p = 0 THEN Err("no dash")
        ELSE LET lo == ParseUsize(SubSeq(s, 1, p - 1))
                 hi == ParseUsize(SubSeq(s, p + 1, Len(s)))
             IN  IF IsErr(lo) THEN Err("min")
                 ELSE IF IsErr(hi) THEN Err("max")
                 ELSE Ok([start |-> lo.val, end |-> hi.val])

cut_resolve_token(row, col, checks) ==
    LET n_headers == Len(row)
        numeric == ParseI32(col)
        range == cut_parse_range(col)
    IN  IF IsOk(numeric)
        THEN IF numeric.val = 0 THEN Err(ColumnZeroInvalid)
             ELSE IF numeric.val < -n_headers \/ numeric.val > n_headers
             THEN Err(ColumnOutOfRange(numeric.val, Len(row)))
             ELSE IF numeric.val > 0 THEN Ok(<<numeric.val - 1>>)
             ELSE Ok(<<n_headers + numeric.val>>)
        ELSE IF IsOk(range)
        THEN IF range.val.start >= range.val.end
             THEN Err(RangeNotIncreasing(range.val.start, range.val.end))
             ELSE IF range.val.end > Len(row)
             THEN Err(RangeOutOfBounds(range.val.start, range.val.end, Len(row)))
             ELSE IF range.val.start = 0 /\ checks
             THEN Panic("attempt to subtract with overflow")
             ELSE Ok([j \in 1..(range.val.end - range.val.start + 1) |->
                         UsizePred(range.val.start + j - 1)])
        ELSE LET r == Position(row, col)
             IN  IF IsOk(r) THEN Ok(<<r.val>>) ELSE r

RECURSIVE cut_resolve_loop(_, _, _, _)
cut_resolve_loop(row, cols, idx_vec, checks) ==
    IF Len(cols) = 0 THEN Ok(idx_vec)
    ELSE LET r == cut_resolve_token(row, Head(cols), checks)
         IN  IF IsOk(r)
             THEN cut_resolve_loop(row, Tail(cols), idx_vec \o r.val, checks)
             ELSE r

cut_select_column_indices(row, cols, checks) ==
    IF cols = None
    THEN Ok([j \in 1..Len(row) |-> j - 1])
    ELSE cut_resolve_loop(row, cols.val, <<>>, checks)

---------------------------------------------------------------------------
(* main.rs: the resolver inlined in process_csv.                           *)

\* A Range<usize> is start..end, the end excluded.
main_parse_range(s) ==
    LET p == FirstDash(s)
    IN  IF p = 0 THEN Err("no dash")
        ELSE LET lo == ParseUsize(SubSeq(s, 1, p - 1))
                 hi == ParseUsize(SubSeq(s, p + 1, Len(s)))
             IN  IF IsErr(lo) THEN Err("min")
                 ELSE IF IsErr(hi) THEN Err("max")
                 ELSE Ok([start |-> lo.val, end |-> hi.val])

\* The if / else-if chain of the loop body: what it adds to idx_vec, or
\* the error it returns with.  A token that is neither adds nothing here.
main_parsed_token(row, col, checks) ==
    LET n_headers == Len(row)
        numeric == ParseI32(col)
        range == main_parse_range(col)
    IN  IF IsOk(numeric)
        THEN IF numeric.val = 0 THEN Err(ColumnZeroInvalid)
             ELSE IF numeric.val < -n_headers \/ numeric.val > n_headers
             THEN Err(ColumnOutOfRange(numeric.val, Len(row)))
             ELSE IF numeric.val > 0 THEN Ok(<<numeric.val - 1>>)
             ELSE Ok(<<n_headers + numeric.val>>)
        ELSE IF IsOk(range)
        THEN IF range.val.start >= range.val.end THEN Ok(<<>>)
             ELSE IF range.val.start = 0 /\ checks
             THEN Panic("attempt to subtract with overflow")
             ELSE Ok([j \in 1..(range.val.end - range.val.start) |->
                         UsizePred(range.val.start + j - 1)])
        ELSE Ok(<<>>)

\* One iteration of the loop: the chain, then the block after it, which
\* looks the token up as a name whatever the chain did.
main_resolve_token(row, col, checks) ==
    LET parsed == main_parsed_token(row, col, checks)
        named == Position(row, col)
    IN  IF ~IsOk(parsed) THEN parsed
        ELSE IF IsOk(named) THEN Ok(parsed.val \o <<named.val>>)
        ELSE named

RECURSIVE main_resolve_loop(_, _, _, _)
main_resolve_loop(row, cols, idx_vec, checks) ==
    IF Len(cols) = 0 THEN Ok(idx_vec)
    ELSE LET r == main_resolve_token(row, Head(cols), checks)
         IN  IF IsOk(r)
             THEN main_resolve_loop(row, Tail(cols), idx_vec \o r.val, checks)
             ELSE r

main_select_column_indices(row, cols, checks) ==
    IF cols = None
    THEN Ok([j \in 1..Len(row) |-> j - 1])
    ELSE main_resolve_loop(row, cols.val, <<>>, checks)

---------------------------------------------------------------------------
(* process_csv: the state of a run.                                        *)

NoOutput == [tag |-> "NoOutput"]

Running == [tag |-> "Running"]

\* The variables of process_csv where no run is modelled.
ProcIdle ==
    /\ pc = "idle"
    /\ options = None
    /\ pending = <<>>
    /\ scanned = <<>>
    /\ selected_indices = <<>>
    /\ statistics = <<>>
    /\ fed = <<>>
    /\ output = NoOutput
    /\ result = Running

---------------------------------------------------------------------------
(* The inputs of the resolver.                                             *)

Some(v) == [tag |-> "Some", val |-> v]

HeaderNames == { <<"a">>, <<"b">>, <<"1">>, <<"1", "-", "2">> }

Headers == UNION { [1..n -> HeaderNames] : n \in 0..MaxCols }

\* Every integer from -(MaxCols+1) to MaxCols+1 as Display writes it, and
\* other spellings that parse::<i32> accepts or rejects.
IntTokens ==
    { IntToString(k) : k \in (-(MaxCols + 1))..(MaxCols + 1) }
    \cup { <<"+", "1">>, <<"-", "0">>, <<"0", "2">>, I32MaxDigits, I32MinDigits,
           <<"-">> \o I32MinDigits }

\* Every a-b with a and b from 0 to MaxCols+1.
RangeTokens ==
    { NatToString(a) \o <<"-">> \o NatToString(b) :
        a \in 0..(MaxCols + 1), b \in 0..(MaxCols + 1) }

NameTokens == HeaderNames \cup { <<"z", "z">>, <<"1", "-">>, <<>> }

Tokens == IntTokens \cup RangeTokens \cup NameTokens

ListTokens == { <<"1">>, <<"-", "1">>, <<"1", "-", "2">>, <<"a">>, <<"z", "z">> }

ColumnInputs ==
    { None }
    \cup { Some(<<t>>) : t \in Tokens }
    \cup { Some(l) : l \in UNION { [1..n -> ListTokens] : n \in 2..MaxTokens } }

---------------------------------------------------------------------------
(* The resolver applied to every input: SpecResolve.                       *)

InitResolve ==
    /\ first_row \in Headers
    /\ columns \in ColumnInputs
    /\ overflow_checks \in BOOLEAN
    /\ util_result = NotRun
    /\ cut_result = NotRun
    /\ main_result = NotRun
    /\ stat = NotRun
    /\ observed = <<>>
    /\ ProcIdle

\* csvstat's process_csv calls csvutil::select_column_indices.
ResolveUtil ==
    /\ util_result = NotRun
    /\ util_result' = select_column_indices(first_row, columns, overflow_checks)
    /\ UNCHANGED <<first_row, columns, overflow_checks, cut_result, main_result,
                 accumVars, procVars>>

\* csvcut's process_csv runs its own copy.
ResolveCut ==
    /\ cut_result = NotRun
    /\ cut_result' = cut_select_column_indices(first_row, columns, overflow_checks)
    /\ UNCHANGED <<first_row, columns, overflow_checks, util_result, main_result,
                 accumVars, procVars>>

NextResolve == ResolveUtil \/ ResolveCut

SpecResolve == InitResolve /\ [][NextResolve]_vars

\* main.rs's process_csv runs its own copy of the resolver: SpecMain.
ResolveMain ==
    /\ main_result = NotRun
    /\ main_result' = main_select_column_indices(first_row, columns, overflow_checks)
    /\ UNCHANGED <<first_row, columns, overflow_checks, util_result, cut_result,
                   accumVars, procVars>>

NextMain == ResolveMain

SpecMain == InitResolve /\ [][NextMain]_vars

---------------------------------------------------------------------------
(* f64 as exact rationals <<num, den>>, den > 0, in lowest terms.          *)

RECURSIVE Gcd(_, _)
Gcd(a, b) == IF b = 0 THEN a ELSE Gcd(b, a % b)

Abs(a) == IF a < 0 THEN -a ELSE a

Rat(n, d) ==
    LET g == Gcd(Abs(n), Abs(d))
        sgn == IF d < 0 THEN -1 ELSE 1
    IN  IF n = 0 THEN <<0, 1>> ELSE <<sgn * (n \div g), sgn * (d \div g)>>

FromInt(k) == <<k, 1>>

Zero == <<0, 1>>

RAdd(x, y) == Rat(x[1] * y[2] + y[1] * x[2], x[2] * y[2])

RSub(x, y) == Rat(x[1] * y[2] - y[1] * x[2], x[2] * y[2])

RMul(x, y) == Rat(x[1] * y[1], x[2] * y[2])

RDiv(x, y) == Rat(x[1] * y[2], x[2] * y[1])

RLess(x, y) == x[1] * y[2] < y[1] * x[2]

\* f64::sqrt of a non-negative value: the real is given by its square.
Sqrt(x) == [sqrt_of |-> x]

\* str::parse::<f64>, on the decimal integers of its grammar (an optional
\* sign, then digits); the empty string and letters are errors.
ParseF64(s) ==
    IF Len(s) = 0 THEN Err("empty")
    ELSE IF s[1] = "-" /\ AllDigits(Tail(s)) THEN Ok(FromInt(-DigitsValue(Tail(s))))
    ELSE IF s[1] = "+" /\ AllDigits(Tail(s)) THEN Ok(FromInt(DigitsValue(Tail(s))))
    ELSE IF AllDigits(s) THEN Ok(FromInt(DigitsValue(s)))
    ELSE Err("invalid")

\* Display for f64, on integral values: no fraction is written.
F64ToString(x) == CASE x[2] = 1 -> IntToString(x[1])

---------------------------------------------------------------------------
(* csvstat.rs: CsvColumnStat and add_statistic.                            *)

\* HashMultiSet<String>: a function from the distinct elements to their
\* counts.
EmptyMultiSet == [x \in {} |-> 0]

MultiSetInsert(d, s) ==
    [x \in DOMAIN d \cup {s} |->
        IF x = s THEN (IF s \in DOMAIN d THEN d[s] + 1 ELSE 1) ELSE d[x]]

\* HashMultiSet::count_of.
count_of(d, s) == IF s \in DOMAIN d THEN d[s] ELSE 0

RECURSIVE SumCounts(_, _)
SumCounts(d, S) ==
    IF S = {} THEN 0
    ELSE LET x == CHOOSE x \in S : TRUE
         IN  d[x] + SumCounts(d, S \ {x})

\* HashMultiSet::len: all the elements, each duplicate included.
MultiSetLen(d) == SumCounts(d, DOMAIN d)

\* The CsvColumnStat that process_csv pushes for a selected column.
NewStat(i, name) ==
    [idx |-> i, name |-> name, n |-> 0, n_numeric |-> 0, sum |-> Zero,
     mean |-> Zero, v_k |-> Zero, variance |-> Zero, n_zeros |-> 0,
     min |-> Zero, max |-> Zero, min_str |-> <<>>, max_str |-> <<>>,
     n_missing |-> 0, n_empty |-> 0, distinct |-> EmptyMultiSet, max_len |-> 0]

\* add_statistic past the early return: a is *p1 with n counted, string
\* the value.
add_present(string, a) ==
    LET first == a.n - (a.n_missing + a.n_empty) = 1
        b == [a EXCEPT !.max_str =
                 IF first \/ StrLess(a.max_str, string) THEN string ELSE @]
        c == [b EXCEPT !.min_str =
                 IF first \/ StrLess(string, b.min_str) THEN string ELSE @]
        d == [c EXCEPT !.n_empty = IF Len(string) = 0 THEN @ + 1 ELSE @]
        e == [d EXCEPT !.distinct = MultiSetInsert(@, string)]
        float == ParseF64(string)
    IN  IF IsOk(float)
        THEN LET x == float.val
                 f == [e EXCEPT !.n_numeric = @ + 1, !.sum = RAdd(@, x)]
                 prev_mean == f.mean
                 g == [f EXCEPT !.mean =
                          RAdd(f.mean, RDiv(RSub(x, f.mean), FromInt(f.n_numeric)))]
                 h == [g EXCEPT !.variance =
                          RAdd(g.variance,
                               RMul(RSub(x, g.mean), RSub(x, prev_mean)))]
                 i == [h EXCEPT !.max =
                          IF h.n_numeric = 1 \/ RLess(h.max, x) THEN x ELSE @]
             IN  [i EXCEPT !.min =
                     IF i.n_numeric = 1 \/ RLess(x, i.min) THEN x ELSE @]
        ELSE e

\* A slip in add_statistic: n is counted after the early return, so a
\* missing value is not counted in n.
add_statistic_counting_late(value, p1) ==
    IF value = None
    THEN [p1 EXCEPT !.n_missing = @ + 1]
    ELSE add_present(value.val, [p1 EXCEPT !.n = @ + 1])

\* A slip in add_statistic: without the early return, a missing value goes
\* on as the empty string.
add_statistic_no_return(value, p1) ==
    LET a == [p1 EXCEPT !.n = @ + 1]
    IN  IF value = None
        THEN add_present(<<>>, [a EXCEPT !.n_missing = @ + 1])
        ELSE add_present(value.val, a)

\* add_statistic(value, p1): the new *p1.  value is None or Some(string).
add_statistic(value, p1) ==
    LET a == [p1 EXCEPT !.n = @ + 1]
    IN  IF value = None
        THEN [a EXCEPT !.n_missing = @ + 1]
        ELSE add_present(value.val, a)

\* CsvColumnStat::stdev.
stdev(s) ==
    IF s.n_numeric < 2 THEN Sqrt(Zero)
    ELSE Sqrt(RDiv(s.v_k, RSub(FromInt(s.n_numeric), FromInt(1))))

\* CsvColumnStat::median.
median(s) == Zero

\* CsvColumnStat::mean.
mean(s) == IF s.sum = Zero THEN Zero ELSE RDiv(FromInt(s.n_numeric), s.sum)

\* CsvColumnStat::unique.
unique(s) == MultiSetLen(s.distinct)

\* CsvColumnStat::nulls.
nulls(s) == s.n_missing > 0

\* A slip in is_numeric: the missing values are not taken off n.
is_numeric_of_all(s) == (s.n_numeric = s.n) /\ (s.n_numeric > 0)

\* CsvColumnStat::is_numeric.
is_numeric(s) == (s.n_numeric = s.n - s.n_missing) /\ (s.n_numeric > 0)

\* CsvColumnStat::infer_type.
infer_type(s) == IF is_numeric(s) THEN "numeric" ELSE "string"

\* CsvColumnStat::max and CsvColumnStat::min.
max(s) == IF is_numeric(s) THEN F64ToString(s.max) ELSE s.max_str

min(s) == IF is_numeric(s) THEN F64ToString(s.min) ELSE s.min_str

---------------------------------------------------------------------------
(* csvstat.rs: CsvColumnStat::freq.  A DoublePriorityQueue is the set of   *)
(* its [key, prio] entries; pop_min takes any entry of least priority, and *)
(* the multiset is iterated in any order of its distinct elements, each    *)
(* repeated as often as it occurs.  An operator here gives the set of the  *)
(* outcomes the unspecified orders allow.                                  *)

FreqCap == 100

\* DoublePriorityQueue::push: a key already in the queue has its priority
\* replaced.
QueuePush(q, d, c) == { e \in q : e.key # d } \cup { [key |-> d, prio |-> c] }

MinEntries(q) == { e \in q : \A f \in q : e.prio <= f.prio }

\* A slip in the eviction: an entry of greatest priority is popped.
PushEvict_max(q, d, c, cap) ==
    LET q1 == QueuePush(q, d, c)
    IN  IF Cardinality(q1) > cap
        THEN { q1 \ {e} : e \in { e \in q1 : \A f \in q1 : e.prio >= f.prio } }
        ELSE { q1 }

\* One step of the for_each: push, then pop_min while more than cap.
PushEvict(q, d, c, cap) ==
    LET q1 == QueuePush(q, d, c)
    IN  IF Cardinality(q1) > cap
        THEN { q1 \ {e} : e \in MinEntries(q1) }
        ELSE { q1 }

\* The element d is visited times more times, from any queue of Q.
RECURSIVE PushRepeated(_, _, _, _, _)
PushRepeated(Q, d, c, times, cap) ==
    IF times = 0 THEN Q
    ELSE PushRepeated(UNION { PushEvict(q, d, c, cap) : q \in Q },
                      d, c, times - 1, cap)

\* The queues the for_each can end with, the elements of rest still to
\* visit.
RECURSIVE FreqQueues(_, _, _, _)
FreqQueues(dist, rest, Q, cap) ==
    IF rest = {} THEN Q
    ELSE UNION { FreqQueues(dist, rest \ {k},
                            PushRepeated(Q, k, count_of(dist, k), count_of(dist, k), cap), cap)
                 : k \in rest }

FreqEntry(e) == e.key \o <<" ", "(">> \o NatToString(e.prio) \o <<"X", ")">>

\* The while loop: pop_min until the queue is empty.
RECURSIVE FreqDrain(_)
FreqDrain(q) ==
    IF q = {} THEN { <<>> }
    ELSE UNION { { <<FreqEntry(e)>> \o v : v \in FreqDrain(q \ {e}) }
                 : e \in MinEntries(q) }

freq_with_cap(s, cap) ==
    UNION { FreqDrain(q) : q \in FreqQueues(s.distinct, DOMAIN s.distinct, {{}}, cap) }

\* CsvColumnStat::freq: the vectors it can return.
freq(s) == freq_with_cap(s, FreqCap)

---------------------------------------------------------------------------
(* One accumulator fed any sequence of values: SpecAccum.                  *)

Values == { <<>>, <<"1">>, <<"2">>, <<"3">>, <<"1", "0">>, <<"a">> }

ObservedValues == { None } \cup { Some(v) : v \in Values }

InitAccum ==
    /\ stat = NewStat(0, <<"a">>)
    /\ observed = <<>>
    /\ first_row = <<>>
    /\ columns = None
    /\ overflow_checks = FALSE
    /\ util_result = NotRun
    /\ cut_result = NotRun
    /\ main_result = NotRun
    /\ ProcIdle

Observe ==
    /\ Len(observed) < MaxObs
    /\ \E v \in ObservedValues :
        /\ stat' = add_statistic(v, stat)
        /\ observed' = Append(observed, v)
    /\ UNCHANGED <<first_row, columns, overflow_checks, resolveVars, procVars>>

NextAccum == Observe

SpecAccum == InitAccum /\ [][NextAccum]_vars

---------------------------------------------------------------------------
(* csvutil.rs: enumerate_output_headers.                                   *)

Alphabet ==
    <<"a", "b", "c", "d", "e", "f", "g", "h", "i", "j", "k", "l", "m",
      "n", "o", "p", "q", "r", "s", "t", "u", "v", "w", "x", "y", "z">>

\* String::repeat of a one-character string.
Repeat(c, n) == [j \in 1..n |-> c]

\* StringRecord::get: the field, or None past the end of the record.
get(record, i) == IF i < Len(record) THEN Some(record[i + 1]) ELSE None

\* Option::unwrap_or.
unwrap_or(o, d) == IF o = None THEN d ELSE o.val

\* A slip in the synthesized names: past "z" they go on as a spreadsheet's
\* do ("aa", "ab", ...).
enumerate_output_headers_base26(input_has_headers, row, sel) ==
    IF input_has_headers
    THEN IF \E j \in 1..Len(sel) : sel[j] >= Len(row)
         THEN Panic("index out of bounds")
         ELSE Ok([j \in 1..Len(sel) |-> row[sel[j] + 1]])
    ELSE Ok([j \in 1..Len(sel) |->
                IF sel[j] < 26 THEN <<Alphabet[sel[j] + 1]>>
                ELSE <<Alphabet[((sel[j] \div 26 - 1) % 26) + 1],
                       Alphabet[(sel[j] % 26) + 1]>>])

\* Ok(names), or the panic of first_row[i] out of bounds; the name of index
\* usize::MAX is too long to allocate.
enumerate_output_headers(input_has_headers, row, sel) ==
    IF input_has_headers
    THEN IF \E j \in 1..Len(sel) : sel[j] >= Len(row)
         THEN Panic("index out of bounds")
         ELSE Ok([j \in 1..Len(sel) |-> row[sel[j] + 1]])
    ELSE IF \E j \in 1..Len(sel) : sel[j] = UsizeMax
         THEN Panic("memory allocation failed")
         ELSE Ok([j \in 1..Len(sel) |->
                     Repeat(Alphabet[(sel[j] % 26) + 1], 1 + (sel[j] \div 26))])

---------------------------------------------------------------------------
(* csvstat.rs: process_csv.                                                *)

\* The rows of the input: one to MaxWidth fields each.
Cells == { <<"a">>, <<"1">> }

ProcRows == UNION { [1..w -> Cells] : w \in 1..MaxWidth }

\* The header row of an empty input is the empty record.
ProcFirstRows == ProcRows \cup { <<>> }

ProcColumns ==
    { None } \cup
    { Some(l) : l \in { << <<"1">> >>, << <<"2">> >>, << <<"-", "1">> >>,
                        << <<"2">>, <<"1">> >>, << <<"1">>, <<"1">> >>,
                        << <<"1", "-", "2">> >>, << <<"0", "-", "1">> >>,
                        << <<"a">> >>, << <<"z", "z">> >>, << <<"3">> >> } }

OptBool == { None, Some(TRUE), Some(FALSE) }

\* csv_reader: has_headers and flexible of the reader built.
HasHeaders == unwrap_or(options.input_has_headers, TRUE)

Flexible == unwrap_or(options.flexible, TRUE)

\* Without a header row the reader yields the first row again as a record.
InitProc ==
    /\ first_row \in ProcFirstRows
    /\ columns \in ProcColumns
    /\ overflow_checks \in BOOLEAN
    /\ pc = "start"
    /\ pending = <<>>
    /\ scanned = <<>>
    /\ selected_indices = <<>>
    /\ statistics = <<>>
    /\ fed = <<>>
    /\ output = NoOutput
    /\ result = Running
    /\ util_result = NotRun
    /\ cut_result = NotRun
    /\ main_result = NotRun
    /\ stat = NotRun
    /\ observed = <<>>

StatOptions ==
    [input_has_headers : { None, Some(FALSE) },
     output_headers : { None, Some(FALSE) },
     flexible : { None, Some(FALSE) },
     output_file : { None, Some("out.csv") },
     csv : BOOLEAN]

InitStat == InitProc /\ options \in StatOptions

procFrame == <<first_row, columns, overflow_checks, options, resolveVars, accumVars>>

\* get_input_file, csv_reader and reader.headers(): the input cannot be
\* opened or read (an Err), or the header row is there.
StatReadHeaders ==
    /\ pc = "start"
    /\ \/ /\ pc' = "headers"
          /\ pending' = IF ~HasHeaders /\ first_row # <<>> THEN <<first_row>> ELSE <<>>
          /\ UNCHANGED result
       \/ /\ pc' = "done"
          /\ result' = Err([kind |-> "HeaderReadFailure"])
          /\ UNCHANGED pending
    /\ UNCHANGED <<scanned, selected_indices, statistics, fed, output>>
    /\ UNCHANGED procFrame

\* csvutil::select_column_indices(&first_row, &input_columns)?
StatResolve ==
    /\ pc = "headers"
    /\ LET r == select_column_indices(first_row, columns, overflow_checks)
       IN  IF IsOk(r)
           THEN /\ selected_indices' = r.val
                /\ pc' = "resolved"
                /\ UNCHANGED result
           ELSE /\ result' = r
                /\ pc' = "done"
                /\ UNCHANGED selected_indices
    /\ UNCHANGED <<pending, scanned, statistics, fed, output>>
    /\ UNCHANGED procFrame

\* File::create(file)? for an output file, stdout otherwise.
StatCreateOutput ==
    /\ pc = "resolved"
    /\ \/ /\ output' = [tag |-> IF options.output_file = None THEN "Stdout" ELSE "File",
                        lines |-> <<>>]
          /\ pc' = "created"
          /\ UNCHANGED result
       \/ /\ options.output_file # None
          /\ result' = Err([kind |-> "OutputCreateFailure"])
          /\ pc' = "done"
          /\ UNCHANGED output
    /\ UNCHANGED <<pending, scanned, selected_indices, statistics, fed>>
    /\ UNCHANGED procFrame

\* The statistics pushed for the selected indices: the object for index i
\* takes the name out_headers[i].
new_statistics(sel, out_headers) ==
    IF \E j \in 1..Len(sel) : sel[j] >= Len(out_headers)
    THEN Panic("index out of bounds")
    ELSE Ok([j \in 1..Len(sel) |-> NewStat(sel[j], out_headers[sel[j] + 1])])

\* enumerate_output_headers, then one CsvColumnStat per selected index.
StatInitStatistics ==
    /\ pc = "created"
    /\ LET h == enumerate_output_headers(HasHeaders, first_row, selected_indices)
           r == IF IsOk(h) THEN new_statistics(selected_indices, h.val) ELSE h
       IN  IF IsOk(r)
           THEN /\ statistics' = r.val
                /\ fed' = [j \in 1..Len(r.val) |-> <<>>]
                /\ pc' = "scan"
                /\ UNCHANGED result
           ELSE /\ result' = r
                /\ pc' = "done"
                /\ UNCHANGED <<statistics, fed>>
    /\ UNCHANGED <<pending, scanned, selected_indices, output>>
    /\ UNCHANGED procFrame

\* for_each over selected_indices of one record: add_statistic(record.get(i),
\* &mut statistics[i]).  k is the position in sel reached.
RECURSIVE feed_record(_, _, _, _, _)
feed_record(record, sel, k, stats, given) ==
    IF k > Len(sel) THEN Ok([stats |-> stats, given |-> given])
    ELSE LET i == sel[k]
         IN  IF i >= Len(stats) THEN Panic("index out of bounds")
             ELSE feed_record(record, sel, k + 1,
                     [stats EXCEPT ![i + 1] = add_statistic(get(record, i), @)],
                     [given EXCEPT ![i + 1] = Append(@, get(record, i))])

\* The record the reader yields next: a pending row, or any row while the
\* input is not empty.
NextRows ==
    IF pending # <<>> THEN { Head(pending) }
    ELSE IF first_row # <<>> /\ Len(scanned) < MaxRecords THEN ProcRows
    ELSE {}

\* A record of another width than the first row is an error unless the
\* reader is flexible.
UnequalLengths(record) == ~Flexible /\ Len(record) # Len(first_row)

\* One iteration of the loop over reader.records().
StatRecord ==
    /\ pc = "scan"
    /\ \E record \in NextRows :
        /\ pending' = IF pending # <<>> THEN Tail(pending) ELSE pending
        /\ IF UnequalLengths(record)
           THEN /\ result' = Err([kind |-> "RecordReadFailure"])
                /\ pc' = "done"
                /\ UNCHANGED <<scanned, statistics, fed>>
           ELSE LET r == feed_record(record, selected_indices, 1, statistics, fed)
                IN  /\ scanned' = Append(scanned, record)
                    /\ IF IsOk(r)
                       THEN /\ statistics' = r.val.stats
                            /\ fed' = r.val.given
                            /\ UNCHANGED <<pc, result>>
                       ELSE /\ result' = r
                            /\ pc' = "done"
                            /\ UNCHANGED <<statistics, fed>>
    /\ UNCHANGED <<selected_indices, output>>
    /\ UNCHANGED procFrame

StatHeaderLine ==
    <<"column_id", "column_name", "type", "nulls", "unique", "min", "max",
      "sum", "mean", "median", "stdev", "len", "freq">>

\* The line written for one statistics object, by its fields; freq is the
\* set of the vectors freq() can return.
StatLine(s) ==
    IF is_numeric(s)
    THEN [column_id |-> s.idx, column_name |-> s.name, type |-> "Number",
          nulls |-> nulls(s), unique |-> unique(s), min |-> s.min,
          max |-> s.max, sum |-> s.sum, mean |-> mean(s),
          median |-> median(s), stdev |-> stdev(s), freq |-> freq(s)]
    ELSE [column_id |-> s.idx, column_name |-> s.name, type |-> "Text",
          nulls |-> nulls(s), unique |-> unique(s), min |-> s.min_str,
          max |-> s.max_str, len |-> s.max_len, freq |-> freq(s)]

\* The end of the input: with --csv the report is written, and Ok(()).
StatReport ==
    /\ pc = "scan"
    /\ pending = <<>>
    /\ output' =
          IF options.csv
          THEN [output EXCEPT !.lines =
                   (IF unwrap_or(options.output_headers, TRUE)
                    THEN <<StatHeaderLine>> ELSE <<>>)
                   \o [j \in 1..Len(statistics) |-> StatLine(statistics[j])]]
          ELSE output
    /\ result' = Ok(<<>>)
    /\ pc' = "done"
    /\ UNCHANGED <<pending, scanned, selected_indices, statistics, fed>>
    /\ UNCHANGED procFrame

NextStat ==
    \/ StatReadHeaders
    \/ StatResolve
    \/ StatCreateOutput
    \/ StatInitStatistics
    \/ StatRecord
    \/ StatReport

SpecStat == InitStat /\ [][NextStat]_vars

---------------------------------------------------------------------------
(* csvcut.rs: process_csv.  What the csv writer is given is appended to    *)
(* output.lines record by record.                                          *)

CutOptions ==
    [input_has_headers : OptBool,
     output_headers : OptBool,
     flexible : { None, Some(FALSE) },
     output_file : { None, Some("out.csv") }]

InitCut == InitProc /\ options \in CutOptions

\* get_input, csv_reader and reader.headers().
CutReadHeaders ==
    /\ pc = "start"
    /\ \/ /\ pc' = "headers"
          /\ pending' = IF ~HasHeaders /\ first_row # <<>> THEN <<first_row>> ELSE <<>>
          /\ UNCHANGED result
       \/ /\ pc' = "done"
          /\ result' = Err([kind |-> "HeaderReadFailure"])
          /\ UNCHANGED pending
    /\ UNCHANGED <<scanned, selected_indices, statistics, fed, output>>
    /\ UNCHANGED procFrame

\* A slip in the resolution: a selector that does not resolve selects
\* nothing and the run goes on.
CutResolve_going_on ==
    /\ pc = "headers"
    /\ LET r == cut_select_column_indices(first_row, columns, overflow_checks)
       IN  selected_indices' = IF IsOk(r) THEN r.val ELSE <<>>
    /\ pc' = "resolved"
    /\ UNCHANGED <<pending, scanned, statistics, fed, output, result>>
    /\ UNCHANGED <<first_row, columns, overflow_checks, options, resolveVars, accumVars>>

\* The match on cut_options.input_columns.
CutResolve ==
    /\ pc = "headers"
    /\ LET r == cut_select_column_indices(first_row, columns, overflow_checks)
       IN  IF IsOk(r)
           THEN /\ selected_indices' = r.val
                /\ pc' = "resolved"
                /\ UNCHANGED result
           ELSE /\ result' = r
                /\ pc' = "done"
                /\ UNCHANGED selected_indices
    /\ UNCHANGED <<pending, scanned, statistics, fed, output>>
    /\ UNCHANGED procFrame

\* BufWriter::new(File::create(file)?) for an output file, stdout otherwise.
CutCreateOutput ==
    /\ pc = "resolved"
    /\ \/ /\ output' = [tag |-> IF options.output_file = None THEN "Stdout" ELSE "File",
                        lines |-> <<>>]
          /\ pc' = "created"
          /\ UNCHANGED result
       \/ /\ options.output_file # None
          /\ result' = Err([kind |-> "OutputCreateFailure"])
          /\ pc' = "done"
          /\ UNCHANGED output
    /\ UNCHANGED <<pending, scanned, selected_indices, statistics, fed>>
    /\ UNCHANGED procFrame

\* A slip in output_has_headers: only output_headers is looked at, as in
\* csvstat.
output_has_headers_unless_off == unwrap_or(options.output_headers, TRUE)

\* options.output_headers.or(options.input_has_headers).unwrap_or(true)
output_has_headers ==
    unwrap_or(IF options.output_headers # None THEN options.output_headers
              ELSE options.input_has_headers, TRUE)

\* The header record written: &first_row[i], or the alphabet names.
cut_header_record(input_has_headers, row, sel) ==
    IF input_has_headers
    THEN IF \E j \in 1..Len(sel) : sel[j] >= Len(row)
         THEN Panic("index out of bounds")
         ELSE Ok([j \in 1..Len(sel) |-> row[sel[j] + 1]])
    ELSE IF \E j \in 1..Len(sel) : sel[j] = UsizeMax
         THEN Panic("memory allocation failed")
         ELSE Ok([j \in 1..Len(sel) |->
                     Repeat(Alphabet[(sel[j] % 26) + 1], 1 + (sel[j] \div 26))])

\* if output_has_headers { csv_writer.write_record(...) }
CutWriteHeaders ==
    /\ pc = "created"
    /\ IF output_has_headers
       THEN LET h == cut_header_record(HasHeaders, first_row, selected_indices)
            IN  IF IsOk(h)
                THEN /\ output' = [output EXCEPT !.lines = Append(@, h.val)]
                     /\ pc' = "scan"
                     /\ UNCHANGED result
                ELSE /\ result' = h
                     /\ pc' = "done"
                     /\ UNCHANGED output
       ELSE /\ pc' = "scan"
            /\ UNCHANGED <<output, result>>
    /\ UNCHANGED <<pending, scanned, selected_indices, statistics, fed>>
    /\ UNCHANGED procFrame

\* selected_indices.iter().map(|&i| &record[i]).collect(): Index on a
\* StringRecord panics past the end of the record.
selected_values(record, sel) ==
    IF \E j \in 1..Len(sel) : sel[j] >= Len(record)
    THEN Panic("index out of bounds")
    ELSE Ok([j \in 1..Len(sel) |-> record[sel[j] + 1]])

\* One iteration of the loop over reader.records().
CutRecord ==
    /\ pc = "scan"
    /\ \E record \in NextRows :
        /\ pending' = IF pending # <<>> THEN Tail(pending) ELSE pending
        /\ IF UnequalLengths(record)
           THEN /\ result' = Err([kind |-> "RecordReadFailure"])
                /\ pc' = "done"
                /\ UNCHANGED <<scanned, output>>
           ELSE LET r == selected_values(record, selected_indices)
                IN  /\ scanned' = Append(scanned, record)
                    /\ IF IsOk(r)
                       THEN /\ output' = [output EXCEPT !.lines = Append(@, r.val)]
                            /\ UNCHANGED <<pc, result>>
                       ELSE /\ result' = r
                            /\ pc' = "done"
                            /\ UNCHANGED output
    /\ UNCHANGED <<selected_indices, statistics, fed>>
    /\ UNCHANGED procFrame

\* The end of the input: csv_writer.flush()?; Ok(())
CutFinish ==
    /\ pc = "scan"
    /\ pending = <<>>
    /\ result' = Ok(<<>>)
    /\ pc' = "done"
    /\ UNCHANGED <<pending, scanned, selected_indices, statistics, fed, output>>
    /\ UNCHANGED procFrame

NextCut ==
    \/ CutReadHeaders
    \/ CutResolve
    \/ CutCreateOutput
    \/ CutWriteHeaders
    \/ CutRecord
    \/ CutFinish

SpecCut == InitCut /\ [][NextCut]_vars

---------------------------------------------------------------------------
(* The runs of both tools over inputs of records of one width: SpecRuns.   *)
(* The reader is not flexible, so a record of another width than the first *)
(* row ends the run with an error; csvstat's report has its header line.   *)

\* Only csvstat has the csv flag.
IsStatRun == options # None /\ "csv" \in DOMAIN options

RunColumns ==
    { None } \cup
    { Some(l) : l \in { << <<"2">>, <<"1">> >>, << <<"a">> >>,
                        << <<"z", "z">> >>, << <<"0", "-", "1">> >> } }

InitRuns ==
    /\ InitStat \/ InitCut
    /\ options.flexible = Some(FALSE)
    /\ IsStatRun => options.output_headers = None
    /\ columns \in RunColumns

NextRuns ==
    \/ IsStatRun /\ NextStat
    \/ ~IsStatRun /\ NextCut

SpecRuns == InitRuns /\ [][NextRuns]_vars

---------------------------------------------------------------------------
(* The output headers of inputs of up to MaxNameCols columns: SpecNames.   *)
(* enumerate_output_headers (csvstat) and the header record of csvcut are  *)
(* applied to a header row and a selection of its columns.                 *)

\* A first row of n fields, each the text "x".
WideRow(n) == [j \in 1..n |-> <<"x">>]

\* The selections of the columns of n: all of them in order, the last, and
\* the last with the first in either order.
NameSelections(n) ==
    { [j \in 1..n |-> j - 1] }
    \cup (IF n = 0 THEN {} ELSE { <<n - 1>>, <<n - 1, 0>>, <<0, n - 1>> })

InitNames ==
    /\ \E n \in 0..MaxNameCols :
          /\ first_row = WideRow(n)
          /\ selected_indices \in NameSelections(n)
    /\ options \in [input_has_headers : OptBool]
    /\ columns = None
    /\ overflow_checks = FALSE
    /\ util_result = NotRun
    /\ cut_result = NotRun
    /\ main_result = NotRun
    /\ stat = NotRun
    /\ observed = <<>>
    /\ pc = "created"
    /\ pending = <<>>
    /\ scanned = <<>>
    /\ statistics = <<>>
    /\ fed = <<>>
    /\ output = NoOutput
    /\ result = Running

\* csvutil::enumerate_output_headers(input_has_headers.unwrap_or(true), ...)
EnumerateUtil ==
    /\ util_result = NotRun
    /\ util_result' = enumerate_output_headers(HasHeaders, first_row, selected_indices)
    /\ UNCHANGED <<first_row, columns, overflow_checks, cut_result, main_result,
                 accumVars, procVars>>

\* The record csvcut writes as the header line.
EnumerateCut ==
    /\ cut_result = NotRun
    /\ cut_result' = cut_header_record(HasHeaders, first_row, selected_indices)
    /\ UNCHANGED <<first_row, columns, overflow_checks, util_result, main_result,
                 accumVars, procVars>>

NextNames == EnumerateUtil \/ EnumerateCut

SpecNames == InitNames /\ [][NextNames]_vars

---------------------------------------------------------------------------
(* Claims about the resolver.                                              *)

\* The single token of the input, when the input is one token.
OneToken == columns # None /\ Len(columns.val) = 1

\* What the claims say an integer token k resolves to against N columns.
IntegerTokenResult(k, N) ==
    IF k = 0 THEN Err(ColumnZeroInvalid)
    ELSE IF k > N \/ k < -N THEN Err(ColumnOutOfRange(k, N))
    ELSE IF k >= 1 THEN Ok(<<k - 1>>)
    ELSE Ok(<<N + k>>)

\* C1: for a header of width N and a token that parses as an integer k,
\* both resolvers (csvutil's and the copy in csvcut) return ColumnZeroInvalid
\* if k = 0, ColumnOutOfRange(k, N) if k > N or k < -N, and otherwise the
\* single index k-1 (1 <= k <= N) or N+k (-N <= k <= -1).
C1_IntegerToken ==
    (OneToken /\ IsOk(ParseI32(columns.val[1]))) =>
        LET k == ParseI32(columns.val[1]).val
            N == Len(first_row)
        IN  /\ util_result # NotRun => util_result = IntegerTokenResult(k, N)
            /\ cut_result # NotRun => cut_result = IntegerTokenResult(k, N)

\* C1's case: -2 against three columns gives index 1, -4 is out of range.
C1_Witness ==
    /\ Len(first_row) = 3
    /\ columns = Some(<< <<"-", "2">> >>)
    /\ util_result = Ok(<<1>>)
    /\ cut_result = Ok(<<1>>)

\* A token a-b of two non-negative decimal integers.
IsRangeToken(t) == IsErr(ParseI32(t)) /\ IsOk(parse_range(t))

\* What C2 says a range token a-b gives against N columns: r is the result.
RangeTokenAsClaimed(r, a, b, N) ==
    IF a >= b
    THEN IsErr(r) /\ r.err.kind = "RangeNotIncreasing" /\ r.err.a = a /\ r.err.b = b
    ELSE IF b > N
    THEN IsErr(r) /\ r.err.kind = "RangeOutOfBounds" /\ r.err.b = b /\ r.err.n = N
    ELSE /\ IsOk(r)
         /\ Len(r.val) = b - a + 1
         /\ \A j \in 1..Len(r.val) :
                r.val[j] = a - 1 + (j - 1)

\* C2: for a header of width N and a token a-b (a, b non-negative decimal
\* integers) the resolvers fail with RangeNotIncreasing(a, b) when a >= b,
\* with RangeOutOfBounds(b, N) when b > N, and otherwise yield the indices
\* a-1, a, ..., b-1 in that order.
C2_RangeToken ==
    (OneToken /\ IsRangeToken(columns.val[1])) =>
        LET range == parse_range(columns.val[1]).val
            N == Len(first_row)
        IN  /\ util_result # NotRun =>
                RangeTokenAsClaimed(util_result, range.start, range.end, N)
            /\ cut_result # NotRun =>
                RangeTokenAsClaimed(cut_result, range.start, range.end, N)

---------------------------------------------------------------------------
(* Claims about the accumulator, stated over the values observed.          *)

IsPresent(v) == v # None

ParsesAsNumber(v) == v # None /\ IsOk(ParseF64(v.val))

\* The non-missing strings observed, in order.
PresentStrings ==
    LET p == SelectSeq(observed, IsPresent)
    IN  [j \in 1..Len(p) |-> p[j].val]

\* The numbers x_1..x_m observed, in order.
NumericValues ==
    LET p == SelectSeq(observed, ParsesAsNumber)
    IN  [j \in 1..Len(p) |-> ParseF64(p[j].val).val]

RECURSIVE RSum(_)
RSum(xs) == IF Len(xs) = 0 THEN Zero ELSE RAdd(Head(xs), RSum(Tail(xs)))

RMean(xs) == RDiv(RSum(xs), FromInt(Len(xs)))

\* The sum of the squared deviations of xs from their mean.
SumSqDev(xs) ==
    LET m == RMean(xs)
    IN  RSum([j \in 1..Len(xs) |-> RMul(RSub(xs[j], m), RSub(xs[j], m))])

Range(f) == { f[j] : j \in DOMAIN f }

\* C5: after any observes of which m parse as numbers, stdev() is 0 when
\* m < 2 and otherwise sqrt(V / (m - 1)), V the sum of squared deviations of
\* the numbers from their mean; observing "1", "2", "3" yields 1.0.
C5_StdevIsSampleStdev ==
    LET xs == NumericValues
        m == Len(xs)
    IN  stat # NotRun =>
            stdev(stat) = IF m < 2 THEN Sqrt(Zero)
                          ELSE Sqrt(RDiv(SumSqDev(xs), FromInt(m - 1)))

\* C6: for a column classified numeric, mean() is sum / n_numeric of the
\* numbers observed, and mean() is 0 when no number was observed.
C6_MeanIsRunningMean ==
    LET xs == NumericValues
    IN  stat # NotRun =>
            /\ is_numeric(stat) => mean(stat) = RMean(xs)
            /\ Len(xs) = 0 => mean(stat) = Zero

\* C7: unique() is the number of distinct non-missing strings observed,
\* however often each was repeated; the same string observed C >= 1 times
\* gives distinct count 1 and freq() exactly the entry "value (CX)".
C7_UniqueCountsDistinct ==
    LET strs == PresentStrings
    IN  stat # NotRun =>
            /\ unique(stat) = Cardinality(Range(strs))
            /\ (Len(strs) >= 1 /\ Cardinality(Range(strs)) = 1) =>
                  freq(stat) = { << strs[1] \o <<" ", "(">>
                                    \o NatToString(Len(strs)) \o <<"X", ")">> >> }

\* C8: once a non-missing value was observed, min_str is the
\* lexicographically smallest and max_str the largest of the non-missing
\* values observed (empty and numeric-looking strings included).
C8_MinMaxStr ==
    LET strs == Range(PresentStrings)
    IN  (stat # NotRun /\ strs # {}) =>
            /\ stat.min_str \in strs /\ \A t \in strs : ~StrLess(t, stat.min_str)
            /\ stat.max_str \in strs /\ \A t \in strs : ~StrLess(stat.max_str, t)

\* The least and the greatest of a non-empty sequence of numbers.
RMin(xs) == CHOOSE x \in Range(xs) : \A y \in Range(xs) : ~RLess(y, x)

RMax(xs) == CHOOSE x \in Range(xs) : \A y \in Range(xs) : ~RLess(x, y)

IsEmptyString(v) == v # None /\ Len(v.val) = 0

\* C10: n is the number of calls; n_missing <= n; n_numeric <= n - n_missing;
\* n_empty <= n - n_missing - n_numeric; and the distinct multiset holds
\* n - n_missing elements, counted with multiplicity.
C10_CounterInvariants ==
    stat # NotRun =>
        /\ stat.n = Len(observed)
        /\ stat.n_missing <= stat.n
        /\ stat.n_numeric <= stat.n - stat.n_missing
        /\ stat.n_empty <= stat.n - stat.n_missing - stat.n_numeric
        /\ MultiSetLen(stat.distinct) = stat.n - stat.n_missing
        /\ stat.n_missing = Len(observed) - Len(SelectSeq(observed, IsPresent))
        /\ stat.n_numeric = Len(SelectSeq(observed, ParsesAsNumber))
        /\ stat.n_empty = Len(SelectSeq(observed, IsEmptyString))

\* C10's case: missing, empty, numeric and text values all observed.
C10_Witness ==
    /\ stat # NotRun
    /\ stat.n = 4 /\ stat.n_missing = 1 /\ stat.n_empty = 1
    /\ stat.n_numeric = 1 /\ MultiSetLen(stat.distinct) = 3

---------------------------------------------------------------------------
(* Claims about the two process_csv.                                       *)

\* The resolver returned a selection and every index of it is a column of
\* the header.
ValidSelection(r) ==
    IsOk(r) /\ \A j \in 1..Len(r.val) : r.val[j] < Len(first_row)

\* The statistics have been created and the scan is under way or over.
StatScanning == pc = "scan" \/ (pc = "done" /\ IsOk(result))

\* C3: in csvstat, for every valid selection S the run creates one
\* statistics object per entry of S, the j-th with idx = S[j]; for every
\* record scanned the j-th object receives exactly one observe, whose value
\* is the record's field S[j] (absent if the record is shorter); and no
\* lookup of a statistics object or of a display name goes out of bounds.
C3_OneStatPerSelected ==
    LET r == select_column_indices(first_row, columns, overflow_checks)
    IN  (pc # "idle" /\ ValidSelection(r)) =>
            /\ ~IsPanic(result)
            /\ StatScanning =>
                /\ Len(statistics) = Len(r.val)
                /\ \A j \in 1..Len(r.val) :
                    /\ statistics[j].idx = r.val[j]
                    /\ fed[j] = [k \in 1..Len(scanned) |-> get(scanned[k], r.val[j])]

\* The data records written: the lines after the header line, if any.
CutDataLines ==
    IF output = NoOutput THEN <<>>
    ELSE IF output_has_headers /\ Len(output.lines) > 0
    THEN Tail(output.lines)
    ELSE output.lines

\* C4: in csvcut, for every selection S the resolver produced and every
\* record (of any width, the reader being flexible), the output record has
\* |S| fields, field i the record's field S[i], or empty when the record is
\* shorter; a short record causes no error and no abort.
C4_ProjectionFillsShort ==
    LET r == cut_select_column_indices(first_row, columns, overflow_checks)
    IN  (pc \in {"scan", "done"} /\ ValidSelection(r) /\ Flexible /\ scanned # <<>>) =>
            /\ ~IsPanic(result)
            /\ Len(CutDataLines) = Len(scanned)
            /\ \A k \in 1..Len(scanned) :
                CutDataLines[k] =
                    [i \in 1..Len(r.val) |->
                        IF r.val[i] < Len(scanned[k])
                        THEN scanned[k][r.val[i] + 1] ELSE <<>>]

---------------------------------------------------------------------------
(* More claims about the resolver.                                         *)

\* A token that parses neither as an integer nor as a range.
IsNameToken(t) == IsErr(ParseI32(t)) /\ IsErr(parse_range(t))

\* What C11 says a name gives against the header row: r is the result.
NameTokenAsClaimed(r, name, row) ==
    IF \E i \in 1..Len(row) : row[i] = name
    THEN /\ IsOk(r)
         /\ Len(r.val) = 1
         /\ r.val[1] + 1 \in 1..Len(row)
         /\ row[r.val[1] + 1] = name
         /\ \A i \in 1..r.val[1] : row[i] # name
    ELSE r = Err(ColumnNotFound(name))

\* C11: for every header (names possibly repeated) and every token that
\* parses neither as an integer nor as a range, both resolvers return the
\* smallest index whose header name equals the token exactly, and fail with
\* ColumnNotFound(name) when no header name equals it.
C11_NameToken ==
    (OneToken /\ IsNameToken(columns.val[1])) =>
        /\ util_result # NotRun =>
              NameTokenAsClaimed(util_result, columns.val[1], first_row)
        /\ cut_result # NotRun =>
              NameTokenAsClaimed(cut_result, columns.val[1], first_row)

\* C11's case: the name occurs twice, and not in the first column.
C11_Witness ==
    /\ first_row = << <<"b">>, <<"a">>, <<"a">> >>
    /\ columns = Some(<< <<"a">> >>)
    /\ util_result = Ok(<<1>>)
    /\ cut_result = Ok(<<1>>)

\* The results of the tokens of cols, each resolved on its own by f (one
\* pass through the body of the loop).
EachAlone(f(_, _, _), cols) ==
    [j \in 1..Len(cols) |-> f(first_row, cols[j], overflow_checks)]

RECURSIVE Concat(_)
Concat(ss) == IF Len(ss) = 0 THEN <<>> ELSE Head(ss) \o Concat(Tail(ss))

\* What C12 says the list cols gives, alone the results of its tokens.
ListAsClaimed(r, alone) ==
    IF \A j \in 1..Len(alone) : IsOk(alone[j])
    THEN r = Ok(Concat([j \in 1..Len(alone) |-> alone[j].val]))
    ELSE LET j == CHOOSE j \in 1..Len(alone) :
                    ~IsOk(alone[j]) /\ \A k \in 1..(j - 1) : IsOk(alone[k])
         IN  r = alone[j]

\* C12: for a header of width N, with no token list the resolvers return
\* 0, 1, ..., N-1; with a list they return the concatenation, in input order
\* and with duplicates kept, of what each token resolves to on its own; and
\* when a token fails, the result is the error of the first failing token.
C12_ListConcatenates ==
    /\ columns = None =>
          /\ util_result # NotRun =>
                util_result = Ok([j \in 1..Len(first_row) |-> j - 1])
          /\ cut_result # NotRun =>
                cut_result = Ok([j \in 1..Len(first_row) |-> j - 1])
    /\ columns # None =>
          /\ util_result # NotRun =>
                ListAsClaimed(util_result,
                              EachAlone(resolve_token, columns.val))
          /\ cut_result # NotRun =>
                ListAsClaimed(cut_result,
                              EachAlone(cut_resolve_token, columns.val))

\* C12's case: a range, then a column the range already gave.
C12_Witness ==
    /\ Len(first_row) = 3
    /\ columns = Some(<< <<"1", "-", "2">>, <<"1">> >>)
    /\ util_result = Ok(<<0, 1, 0>>)
    /\ cut_result = Ok(<<0, 1, 0>>)

\* A header of the width of row none of whose names is a token of the model.
Nameless(row) == [j \in 1..Len(row) |-> <<"c", "c", "c">>]

\* C13: a token that parses as an integer or as a range is resolved as one
\* and never by the lookup of a header name: the result is not
\* ColumnNotFound and is the one the header's width alone determines, even
\* when a header has exactly the token as its name.
C13_ParseOrder ==
    (OneToken /\ ~IsNameToken(columns.val[1])) =>
        /\ util_result # NotRun =>
              /\ util_result =
                    select_column_indices(Nameless(first_row), columns, overflow_checks)
              /\ IsErr(util_result) => util_result.err.kind # "ColumnNotFound"
        /\ cut_result # NotRun =>
              /\ cut_result =
                    cut_select_column_indices(Nameless(first_row), columns, overflow_checks)
              /\ IsErr(cut_result) => cut_result.err.kind # "ColumnNotFound"

\* C13's case: the second column is named "1-2" and the third "1"; the
\* token "1-2" gives the first two columns.
C13_Witness ==
    /\ first_row = << <<"a">>, <<"1", "-", "2">>, <<"1">> >>
    /\ columns = Some(<< <<"1", "-", "2">> >>)
    /\ util_result = Ok(<<0, 1>>)
    /\ cut_result = Ok(<<0, 1>>)

\* Every index of a returned selection is a column of the header, and the
\* resolver did not stop on an arithmetic overflow.
IndicesInBounds(r) ==
    /\ ~IsPanic(r)
    /\ IsOk(r) => \A j \in 1..Len(r.val) : 0 <= r.val[j] /\ r.val[j] < Len(first_row)

\* C20: whenever a resolver returns successfully for a header of width N,
\* every index of the returned sequence is at least 0 and less than N, for
\* every token list, ranges of lower bound 0 included; no index subtraction
\* underflows.
C20_IndicesInBounds ==
    /\ util_result # NotRun => IndicesInBounds(util_result)
    /\ cut_result # NotRun => IndicesInBounds(cut_result)

---------------------------------------------------------------------------
(* More claims about the accumulator.                                      *)

\* How often the string d was observed.
Occurrences(d) ==
    Cardinality({ j \in 1..Len(PresentStrings) : PresentStrings[j] = d })

\* The entry freq() is to give for the string d.
EntryOf(d) ==
    d \o <<" ", "(">> \o NatToString(Occurrences(d)) \o <<"X", ")">>

\* The distinct string each entry of v is the entry of, None for an entry
\* of no string observed.
ValuesOf(v, entry) ==
    [j \in 1..Len(v) |->
        IF \E d \in DOMAIN entry : v[j] = entry[d]
        THEN CHOOSE d \in DOMAIN entry : v[j] = entry[d]
        ELSE None]

\* What C15 says of a vector v returned with the capacity cap: occ gives
\* the count and entry the entry of each distinct string observed.
FreqAsClaimed(v, cap, occ, entry) ==
    \A valueAt \in { ValuesOf(v, entry) } :
        LET strs == DOMAIN occ
            D == Cardinality(strs)
            returned == { valueAt[j] : j \in 1..Len(v) }
        IN  /\ Len(v) = IF D < cap THEN D ELSE cap
            /\ returned \subseteq strs
            /\ \A j, k \in 1..Len(v) : j # k => valueAt[j] # valueAt[k]
            /\ \A j, k \in 1..Len(v) : j < k => occ[valueAt[j]] <= occ[valueAt[k]]
            /\ \A d \in strs \ returned : \A e \in returned : occ[d] <= occ[e]

\* C15: for a final multiset of D distinct values, freq() returns exactly
\* min(100, D) entries, each distinct value at most once and paired with its
\* count, in non-decreasing order of count, and every value left out has a
\* count no greater than that of every value returned.  The loop of freq()
\* is checked with its capacity of 100 and with the capacities 1..MaxCap,
\* which the values observed exceed.
C15_FreqKeepsMostFrequent ==
    stat # NotRun =>
        \A occ \in { [d \in Range(PresentStrings) |-> Occurrences(d)] } :
        \A entry \in { [d \in Range(PresentStrings) |-> EntryOf(d)] } :
            \A cap \in (1..MaxCap) \cup {FreqCap} :
                \A v \in freq_with_cap(stat, cap) :
                    FreqAsClaimed(v, cap, occ, entry)

\* C15's case: three distinct values, one of them twice, and a capacity
\* that two of them exceed: the value observed twice is the one kept.
C15_Witness ==
    /\ stat # NotRun
    /\ observed = << Some(<<"a">>), Some(<<"1">>), Some(<<"1">>), Some(<<"2">>) >>
    /\ freq_with_cap(stat, 1) = { << <<"1", " ", "(", "2", "X", ")">> >> }
    /\ Cardinality(freq_with_cap(stat, 2)) = 2
    /\ Len(CHOOSE v \in freq(stat) : TRUE) = 3

\* The greatest length of the strings of a set, 0 for the empty set.
LongestLen(S) ==
    IF S = {} THEN 0
    ELSE CHOOSE n \in { Len(x) : x \in S } : \A x \in S : Len(x) <= n

\* C16: after any observes, the max_len reported for a Text column is the
\* length of the longest non-missing string observed (0 only if none was
\* observed or all were empty).
C16_MaxLenIsLongest ==
    (stat # NotRun /\ ~is_numeric(stat)) =>
        stat.max_len = LongestLen(Range(PresentStrings))

\* C19: an add_statistic call with an absent value adds one to n and to
\* n_missing and leaves every other field of the accumulator as it was.
C19_AbsentValueFrame ==
    [][ (stat # NotRun /\ observed' = Append(observed, None)) =>
            stat' = [stat EXCEPT !.n = @ + 1, !.n_missing = @ + 1] ]_vars

\* C19's case: an absent value after a number and a text value were
\* observed; the fields they set are as they were.
C19_Witness ==
    /\ stat # NotRun
    /\ observed = << Some(<<"2">>), Some(<<"a">>), None >>
    /\ stat.n = 3 /\ stat.n_missing = 1 /\ stat.n_numeric = 1 /\ stat.n_empty = 0
    /\ stat.min_str = <<"2">> /\ stat.max_str = <<"a">>
    /\ MultiSetLen(stat.distinct) = 2

---------------------------------------------------------------------------
(* Claims about the output headers.                                        *)

\* The name C17 gives the 0-based column i.
SynthesizedName(i) == [k \in 1..(1 + (i \div 26)) |-> Alphabet[(i % 26) + 1]]

\* The names C17 spells out.
NamedExamples ==
    { <<0, <<"a">> >>, <<25, <<"z">> >>, <<26, <<"a", "a">> >>,
      <<51, <<"z", "z">> >>, <<52, <<"a", "a", "a">> >>,
      <<99, <<"v", "v", "v", "v">> >> }

\* What C17 says of the names r returned for the selection sel.
NamesAsClaimed(r, sel) ==
    /\ IsOk(r)
    /\ Len(r.val) = Len(sel)
    /\ \A j \in 1..Len(sel) :
          /\ r.val[j] = SynthesizedName(sel[j])
          /\ \A e \in NamedExamples : sel[j] = e[1] => r.val[j] = e[2]
    /\ \A j, k \in 1..Len(sel) : sel[j] # sel[k] => r.val[j] # r.val[k]
    /\ (Len(first_row) = 100 /\ sel = [j \in 1..100 |-> j - 1]) =>
          Len(r.val) = 100 /\ r.val[100] = <<"v", "v", "v", "v">>

HeaderLineRequested ==
    \/ options.output_headers = Some(TRUE)
    \/ /\ options.output_headers = None
       /\ options.input_has_headers \in { None, Some(TRUE) }

\* The header line C18 describes for the selection sel.
HeaderLineAsClaimed(sel) ==
    IF options.input_has_headers \in { None, Some(TRUE) }
    THEN [j \in 1..Len(sel) |-> first_row[sel[j] + 1]]
    ELSE [j \in 1..Len(sel) |-> SynthesizedName(sel[j])]

\* The records written so far: the last record scanned was not written if
\* the run panicked on it.
RecordsWritten ==
    IF pc = "done" /\ IsPanic(result) /\ scanned # <<>>
    THEN SubSeq(scanned, 1, Len(scanned) - 1)
    ELSE scanned

\* C18: csvcut writes a header line iff output_headers is true, or it is
\* unset and the input has a header row (input_has_headers unset or true).
\* A header line is written once, before every data row, and holds the
\* header names of the selected columns if the input has headers and the
\* synthesized names otherwise.  Stated for the selections of columns of
\* the header, once the run is past the writing of the header line.
C18_HeaderLineIffRequested ==
    LET sel == selected_indices
    IN  (/\ pc \in {"scan", "done"} /\ ~IsStatRun /\ output # NoOutput
         /\ \A j \in 1..Len(sel) : sel[j] < Len(first_row)) =>
            LET data == [k \in 1..Len(RecordsWritten) |->
                            [j \in 1..Len(sel) |-> RecordsWritten[k][sel[j] + 1]]]
            IN  IF HeaderLineRequested
                THEN output.lines = <<HeaderLineAsClaimed(sel)>> \o data
                ELSE output.lines = data

\* C18's case: no header row in the input, output headers requested, the
\* second and the first column selected: the line "b", "a" comes first,
\* then the first row of the input as a data row.
C18_Witness ==
    /\ pc = "scan"
    /\ options # None
    /\ options.input_has_headers = Some(FALSE)
    /\ options.output_headers = Some(TRUE)
    /\ first_row = << <<"1">>, <<"a">> >>
    /\ selected_indices = <<1, 0>>
    /\ output # NoOutput
    /\ output.lines = << << <<"b">>, <<"a">> >>, << <<"a">>, <<"1">> >> >>

---------------------------------------------------------------------------
(* Claims about the order of the steps of a run.                           *)

\* What the resolver of the running tool returns for the run's selector.
Resolution ==
    IF IsStatRun
    THEN select_column_indices(first_row, columns, overflow_checks)
    ELSE cut_select_column_indices(first_row, columns, overflow_checks)

\* The step of a run that resolves the selector.
ResolveStep == pc = "headers" /\ pc' # "headers"

\* C14: in every run of csvcut's and csvstat's process_csv the selector is
\* resolved once, after the header row is read and before the output
\* destination is created, before any record is scanned and before anything
\* is written; when the resolution fails the run ends with that error and
\* no output has been created or written.
C14_ResolveOnceBeforeOutput ==
    /\ [](pc \in {"start", "headers"} =>
            output = NoOutput /\ scanned = <<>> /\ selected_indices = <<>>)
    /\ []((output # NoOutput \/ scanned # <<>>) =>
            IsOk(Resolution) /\ selected_indices = Resolution.val)
    /\ [][ /\ selected_indices' # selected_indices => ResolveStep
           /\ pc' = "headers" => pc = "start"
           /\ pc' # "start" /\ pc # "done"
           /\ ResolveStep =>
                /\ output' = NoOutput /\ scanned' = <<>>
                /\ IF IsOk(Resolution)
                   THEN /\ selected_indices' = Resolution.val
                        /\ pc' = "resolved" /\ result' = Running
                   ELSE pc' = "done" /\ result' = Resolution ]_vars

\* C14's case: in a csvcut run to an output file the name "zz" is not a
\* column: the run has ended with ColumnNotFound and no file was created.
C14_Witness ==
    /\ pc = "done"
    /\ ~IsStatRun
    /\ options.output_file # None
    /\ first_row # <<>>
    /\ result = Err(ColumnNotFound(<<"z", "z">>))
    /\ output = NoOutput
    /\ scanned = <<>>

---------------------------------------------------------------------------
(* The claim about the resolver of main.rs.                                *)

\* C21: in the resolver inlined in main.rs each token contributes indices
\* through one variant only: a token that parsed as an integer or as a
\* range is not looked up as a header name as well, so that an integer
\* token k gives what the integer rule gives (["1"] gives [0] against three
\* columns none of which is named "1"), a range token gives no more indices
\* than the range has, and neither fails with ColumnNotFound.
C21_OneVariantPerToken ==
    (OneToken /\ ~IsNameToken(columns.val[1]) /\ main_result # NotRun) =>
        LET t == columns.val[1]
            N == Len(first_row)
        IN  /\ IsErr(main_result) => main_result.err.kind # "ColumnNotFound"
            /\ IsOk(ParseI32(t)) =>
                  main_result = IntegerTokenResult(ParseI32(t).val, N)
            /\ (IsErr(ParseI32(t)) /\ IsOk(main_result)) =>
                  LET range == main_parse_range(t).val
                  IN  Len(main_result.val) =
                          IF range.start < range.end
                          THEN range.end - range.start ELSE 0

=============================================================================
